---- MODULE Spec2Model ----
(***************************************************************************)
(* Model of list_models.py: a linear script that loads GEMINI_API_KEY,     *)
(* configures the generative-AI client, iterates genai.list_models() and   *)
(* prints one block per model supporting 'generateContent'.                *)
(*                                                                         *)
(* Python values: an optional string is a record, PyNone or PyStr(s).      *)
(* Standard output is the sequence of strings passed to print(), in order. *)
(* The failure marker glyph U+274C of the two diagnostics is written "[x]" *)
(* because module text is ASCII.                                           *)
(***************************************************************************)
EXTENDS Integers, Sequences, FiniteSets, TLC

VARIABLES
    os_environ,      \* GEMINI_API_KEY in the process environment at start
    dotenv_file,     \* GEMINI_API_KEY in the .env file
    environ,         \* GEMINI_API_KEY in os.environ as the script sees it
    api_key,         \* the module-level name api_key
    handle,          \* the process-wide client credential set by genai.configure
    service,         \* what the remote service will do during this run
    it,              \* number of descriptors the list_models() iterator has yielded
    m,               \* the loop variable m
    exc,             \* the exception in flight
    out,             \* standard output: one string per print() call
    pc,              \* position of the script
    listCalls,       \* number of genai.list_models() calls issued
    configureCalls,  \* number of genai.configure() calls issued
    failed,          \* the except clause has run
    fin,             \* filter harness: the descriptor sequence filtered
    once,            \* filter harness: survivors of one application
    twice,           \* filter harness: survivors of a second application
    fpc              \* filter harness: position

vars == <<os_environ, dotenv_file, environ, api_key, handle, service, it, m, exc,
          out, pc, listCalls, configureCalls, failed, fin, once, twice, fpc>>

scriptVars == <<os_environ, dotenv_file, environ, api_key, handle, service, it, m,
                exc, out, pc, listCalls, configureCalls, failed>>

harnessVars == <<fin, once, twice, fpc>>

(************************* bounds of the model *****************************)

\* longest response of the service (number of descriptors)
MaxModels == 2

\* longest descriptor sequence given to the filter harness
MaxFilterLen == 3

(************************* Python values ***********************************)

PyNone == [is_none |-> TRUE, s |-> ""]

PyStr(str) == [is_none |-> FALSE, s |-> str]

\* the gate written as "api_key is not None"
TruthyIsNotNone(v) == ~v.is_none

\* bool(v) of an optional string: None and "" are falsy
Truthy(v) == ~v.is_none /\ Len(v.s) > 0

\* x in s, for a list s
Contains(s, x) == \E i \in 1..Len(s) : s[i] = x

RECURSIVE Repeat(_, _)
\* s * n, for a string s
Repeat(s, n) == IF n <= 0 THEN "" ELSE s \o Repeat(s, n - 1)

RECURSIVE ReprItems(_)
ReprItems(s) ==
    IF Len(s) = 0 THEN ""
    ELSE IF Len(s) = 1 THEN "'" \o s[1] \o "'"
    ELSE "'" \o s[1] \o "', " \o ReprItems(Tail(s))

\* str(s), for a list s of strings
ReprList(s) == "[" \o ReprItems(s) \o "]"

(************************* the environment *********************************)

CredentialValues == {PyNone, PyStr(""), PyStr("AIza-key")}

\* load_dotenv(): a value of the .env file is set only when the process
\* environment does not already define the name
LoadDotenvValue(env, file) == IF env.is_none THEN file ELSE env

(************************* the remote service ******************************)

Descriptor(name, display_name, methods) ==
    [name |-> name, display_name |-> display_name,
     supported_generation_methods |-> methods]

Descriptors ==
    { Descriptor("models/gemini-pro", "Gemini Pro", <<"generateContent", "countTokens">>),
      Descriptor("models/embedding-001", "Embedding 001", <<"embedContent">>),
      Descriptor("models/gemini-flash", "Gemini Flash", <<"countTokens", "generateContent">>),
      Descriptor("models/gemini-live", "Gemini Live", <<"bidiGenerateContent">>),
      Descriptor("models/aqa", "AQA", <<>>) }

NoDescriptor == Descriptor("", "", <<>>)

\* the faults the client library raises from a call; all derive from Exception
Faults ==
    { [cls |-> "DeadlineExceeded", msg |-> "timeout"],
      [cls |-> "PermissionDenied", msg |-> "API key not valid"] }

NoFault == [cls |-> "", msg |-> ""]

ExceptionClasses == {"DeadlineExceeded", "PermissionDenied", "ValueError"}

SeqsUpTo(S, n) == UNION { [1..k -> S] : k \in 0..n }

\* A run of the service: the descriptors it would return and, when fault is
\* not NoFault, the number of descriptors the lazy sequence yields before it
\* raises the fault (0: the call fails before yielding anything).
Services ==
    { [models |-> ms, fault |-> NoFault, faultAfter |-> -1] : ms \in SeqsUpTo(Descriptors, MaxModels) }
    \cup
    { [models |-> ms, fault |-> f, faultAfter |-> k] :
        ms \in SeqsUpTo(Descriptors, MaxModels), f \in Faults, k \in 0..MaxModels }

(************************* the script **************************************)

MissingKeyLine == "[x] Error: API Key not found in .env file."

ProgressLine == "Fetching available models...\n"

FetchErrorLine(e) == "[x] Error fetching models: " \o e.msg

SeparatorWidth == 30

SeparatorLine == Repeat("-", SeparatorWidth)

\* the test applied to the first listed method only
CapabilityTestFirstMethod(d) ==
    /\ Len(d.supported_generation_methods) > 0
    /\ d.supported_generation_methods[1] = "generateContent"

\* 'generateContent' in m.supported_generation_methods
CapabilityTest(d) == Contains(d.supported_generation_methods, "generateContent")

\* the test written as a removal of the capability from the method list
AfterTestConsumes(d) ==
    [d EXCEPT !.supported_generation_methods =
        SelectSeq(d.supported_generation_methods, LAMBDA x : x # "generateContent")]

\* the descriptor as the capability test leaves it: the membership test
\* reads the method list and writes nothing
AfterTest(d) == d

RECURSIVE Filter(_)
\* the descriptors of s the loop prints, in the loop's order
Filter(s) ==
    IF Len(s) = 0 THEN <<>>
    ELSE IF CapabilityTest(Head(s))
         THEN <<AfterTest(Head(s))>> \o Filter(Tail(s))
         ELSE Filter(Tail(s))

\* every descriptor of s after the loop has tested it
Tested(s) == [i \in DOMAIN s |-> AfterTest(s[i])]

\* the four print() calls of the loop body
Block(d) ==
    << "Model Name: " \o d.name,
       "Display Name: " \o d.display_name,
       "Methods: " \o ReprList(d.supported_generation_methods),
       SeparatorLine >>

\* the handler narrowed to one failure subtype
CatchesDeadlineOnly(cls) == cls = "DeadlineExceeded"

\* except Exception
Catches(cls) == cls \in ExceptionClasses

Init ==
    /\ os_environ \in CredentialValues
    /\ dotenv_file \in CredentialValues
    /\ environ = os_environ
    /\ api_key = PyNone
    /\ handle = PyNone
    /\ service \in { s \in Services : s.faultAfter <= Len(s.models) }
    /\ it = 0
    /\ m = NoDescriptor
    /\ exc = NoFault
    /\ out = <<>>
    /\ pc = "load_dotenv"
    /\ listCalls = 0
    /\ configureCalls = 0
    /\ failed = FALSE
    /\ fin = <<>>
    /\ once = <<>>
    /\ twice = <<>>
    /\ fpc = "off"

\* line 6: load_dotenv()
LoadDotenv ==
    /\ pc = "load_dotenv"
    /\ environ' = LoadDotenvValue(os_environ, dotenv_file)
    /\ pc' = "getenv"
    /\ UNCHANGED <<os_environ, dotenv_file, api_key, handle, service, it, m, exc, out,
                   listCalls, configureCalls, failed>>
    /\ UNCHANGED harnessVars

\* line 9: api_key = os.getenv("GEMINI_API_KEY")
GetEnv ==
    /\ pc = "getenv"
    /\ api_key' = environ
    /\ pc' = "gate"
    /\ UNCHANGED <<os_environ, dotenv_file, environ, handle, service, it, m, exc, out,
                   listCalls, configureCalls, failed>>
    /\ UNCHANGED harnessVars

\* the gate without its else: the diagnostic is printed and the script goes on
GateMissingFallsThrough ==
    /\ pc = "gate"
    /\ ~Truthy(api_key)
    /\ out' = Append(out, MissingKeyLine)
    /\ pc' = "progress"
    /\ UNCHANGED <<os_environ, dotenv_file, environ, api_key, handle, service, it, m,
                   exc, listCalls, configureCalls, failed>>
    /\ UNCHANGED harnessVars

\* lines 10-11: if not api_key: print(...)
GateMissing ==
    /\ pc = "gate"
    /\ ~Truthy(api_key)
    /\ out' = Append(out, MissingKeyLine)
    /\ pc' = "done"
    /\ UNCHANGED <<os_environ, dotenv_file, environ, api_key, handle, service, it, m,
                   exc, listCalls, configureCalls, failed>>
    /\ UNCHANGED harnessVars

\* genai.configure() called without the credential
ConfigureWithoutKey ==
    /\ pc = "gate"
    /\ Truthy(api_key)
    /\ handle' = PyNone
    /\ configureCalls' = configureCalls + 1
    /\ pc' = "progress"
    /\ UNCHANGED <<os_environ, dotenv_file, environ, api_key, service, it, m, exc, out,
                   listCalls, failed>>
    /\ UNCHANGED harnessVars

\* lines 12-13: else: genai.configure(api_key=api_key)
Configure ==
    /\ pc = "gate"
    /\ Truthy(api_key)
    /\ handle' = api_key
    /\ configureCalls' = configureCalls + 1
    /\ pc' = "progress"
    /\ UNCHANGED <<os_environ, dotenv_file, environ, api_key, service, it, m, exc, out,
                   listCalls, failed>>
    /\ UNCHANGED harnessVars

\* the progress message left out
PrintProgressOmitted ==
    /\ pc = "progress"
    /\ pc' = "call"
    /\ UNCHANGED <<os_environ, dotenv_file, environ, api_key, handle, service, it, m,
                   exc, out, listCalls, configureCalls, failed>>
    /\ UNCHANGED harnessVars

\* line 15: print("Fetching available models...\n")
PrintProgress ==
    /\ pc = "progress"
    /\ out' = Append(out, ProgressLine)
    /\ pc' = "call"
    /\ UNCHANGED <<os_environ, dotenv_file, environ, api_key, handle, service, it, m,
                   exc, listCalls, configureCalls, failed>>
    /\ UNCHANGED harnessVars

\* line 18: genai.list_models() is called and the for loop takes its iterator
CallListModels ==
    /\ pc = "call"
    /\ listCalls' = listCalls + 1
    /\ it' = 0
    /\ pc' = "next"
    /\ UNCHANGED <<os_environ, dotenv_file, environ, api_key, handle, service, m, exc,
                   out, configureCalls, failed>>
    /\ UNCHANGED harnessVars

\* line 18: the for loop asks the iterator for its next descriptor, and the
\* iterator raises
NextRaises ==
    /\ pc = "next"
    /\ service.faultAfter = it
    /\ exc' = service.fault
    /\ pc' = "raised"
    /\ UNCHANGED <<os_environ, dotenv_file, environ, api_key, handle, service, it, m,
                   out, listCalls, configureCalls, failed>>
    /\ UNCHANGED harnessVars

\* line 18: the iterator yields the next descriptor into m
NextYields ==
    /\ pc = "next"
    /\ service.faultAfter # it
    /\ it < Len(service.models)
    /\ m' = service.models[it + 1]
    /\ it' = it + 1
    /\ pc' = "test"
    /\ UNCHANGED <<os_environ, dotenv_file, environ, api_key, handle, service, exc, out,
                   listCalls, configureCalls, failed>>
    /\ UNCHANGED harnessVars

\* line 18: the iterator is exhausted and the loop, the try and the script end
NextStops ==
    /\ pc = "next"
    /\ service.faultAfter # it
    /\ it = Len(service.models)
    /\ pc' = "done"
    /\ UNCHANGED <<os_environ, dotenv_file, environ, api_key, handle, service, it, m,
                   exc, out, listCalls, configureCalls, failed>>
    /\ UNCHANGED harnessVars

\* the block of a passing descriptor put in front of the blocks printed so far
LoopBodyNewestFirst ==
    /\ pc = "test"
    /\ out' = IF CapabilityTest(m) THEN <<Head(out)>> \o Block(m) \o Tail(out) ELSE out
    /\ m' = AfterTest(m)
    /\ pc' = "next"
    /\ UNCHANGED <<os_environ, dotenv_file, environ, api_key, handle, service, it,
                   exc, listCalls, configureCalls, failed>>
    /\ UNCHANGED harnessVars

\* lines 20-24: the capability test and, when it passes, the four prints
LoopBody ==
    /\ pc = "test"
    /\ out' = IF CapabilityTest(m) THEN out \o Block(m) ELSE out
    /\ m' = AfterTest(m)
    /\ pc' = "next"
    /\ UNCHANGED <<os_environ, dotenv_file, environ, api_key, handle, service, it,
                   exc, listCalls, configureCalls, failed>>
    /\ UNCHANGED harnessVars

\* the handler calling genai.list_models() again after the first failure
ExceptRetries ==
    /\ pc = "raised"
    /\ out' = Append(out, FetchErrorLine(exc))
    /\ failed' = TRUE
    /\ pc' = IF listCalls < 2 THEN "call" ELSE "done"
    /\ UNCHANGED <<os_environ, dotenv_file, environ, api_key, handle, service, it, m,
                   exc, listCalls, configureCalls>>
    /\ UNCHANGED harnessVars

\* lines 26-27: except Exception as e: print(...); an exception the clause
\* does not catch leaves the script with a traceback
Except ==
    /\ pc = "raised"
    /\ IF Catches(exc.cls)
         THEN /\ out' = Append(out, FetchErrorLine(exc))
              /\ failed' = TRUE
              /\ pc' = "done"
         ELSE /\ pc' = "crashed"
              /\ UNCHANGED <<out, failed>>
    /\ UNCHANGED <<os_environ, dotenv_file, environ, api_key, handle, service, it, m,
                   exc, listCalls, configureCalls>>
    /\ UNCHANGED harnessVars

Next ==
    \/ LoadDotenv
    \/ GetEnv
    \/ GateMissing
    \/ Configure
    \/ PrintProgress
    \/ CallListModels
    \/ NextRaises
    \/ NextYields
    \/ NextStops
    \/ LoopBody
    \/ Except

Spec == Init /\ [][Next]_vars

\* the script is one sequential thread: a step that can be taken is taken
FairSpec == Spec /\ WF_vars(Next)


(************************* the filter applied twice *************************)

\* the script has not started while the harness runs
FilterInit ==
    /\ os_environ = PyNone
    /\ dotenv_file = PyNone
    /\ environ = PyNone
    /\ api_key = PyNone
    /\ handle = PyNone
    /\ service = [models |-> <<>>, fault |-> NoFault, faultAfter |-> -1]
    /\ it = 0
    /\ m = NoDescriptor
    /\ exc = NoFault
    /\ out = <<>>
    /\ pc = "off"
    /\ listCalls = 0
    /\ configureCalls = 0
    /\ failed = FALSE
    /\ fin \in SeqsUpTo(Descriptors, MaxFilterLen)
    /\ once = <<>>
    /\ twice = <<>>
    /\ fpc = "start"

\* lines 18-20 run over fin: every descriptor is tested, the passing ones kept
FilterFirst ==
    /\ fpc = "start"
    /\ once' = Filter(fin)
    /\ fin' = Tested(fin)
    /\ fpc' = "once"
    /\ UNCHANGED twice
    /\ UNCHANGED scriptVars

\* lines 18-20 run over the survivors of the first application
FilterSecond ==
    /\ fpc = "once"
    /\ twice' = Filter(once)
    /\ once' = Tested(once)
    /\ fpc' = "twice"
    /\ UNCHANGED fin
    /\ UNCHANGED scriptVars

FilterNext == FilterFirst \/ FilterSecond

FilterSpec == FilterInit /\ [][FilterNext]_vars

(************************* properties ***************************************)

\* the claims' capability criterion: the exact string is one of the methods
HasGenerateContent(d) ==
    "generateContent" \in
        { d.supported_generation_methods[i] : i \in DOMAIN d.supported_generation_methods }

RECURSIVE BlocksOf(_)
\* the blocks of the descriptors of s, one after the other
BlocksOf(s) == IF Len(s) = 0 THEN <<>> ELSE Block(Head(s)) \o BlocksOf(Tail(s))

\* number of places of sequence s holding x
Count(s, x) == Cardinality({ i \in DOMAIN s : s[i] = x })

\* number of blocks of descriptor d on standard output
BlockCount(d) == Cardinality({ i \in 1..(Len(out) - 3) : SubSeq(out, i, i + 3) = Block(d) })

\* number of descriptors the loop body has finished with
Processed == IF pc = "test" THEN it - 1 ELSE it

\* the credential lookup of line 9 has happened
LookedUp == pc \notin {"load_dotenv", "getenv"}

\* the run ended, the credential was accepted by the gate and nothing failed
CompletedListing == pc = "done" /\ listCalls = 1 /\ ~failed

\* C1 (P1, gating): once the lookup has returned None, genai.configure and
\* genai.list_models are never called, nothing but the missing-credential
\* diagnostic is ever printed, and the finished run's whole output is that line.
GatingP1 ==
    (LookedUp /\ api_key.is_none) =>
        /\ configureCalls = 0
        /\ listCalls = 0
        /\ handle = PyNone
        /\ pc \in {"gate", "done"}
        /\ out \in {<<>>, <<MissingKeyLine>>}
        /\ (pc = "done" => out = <<MissingKeyLine>>)

GatingP1Witness ==
    /\ pc = "done"
    /\ api_key.is_none
    /\ out = <<MissingKeyLine>>
    /\ listCalls = 0

\* C2 (P4, all-or-nothing), as claimed: whenever the enumeration has failed,
\* the output holds the progress line and the one failure line and no model
\* block, also when the lazy sequence had yielded descriptors before failing.
FailSoftAllOrNothingP4 ==
    failed => out = <<ProgressLine, FetchErrorLine(exc)>>

\* C3 (P2, filter correctness): in a run that completed without failure each
\* descriptor has as many blocks on the output as the response holds copies of
\* it when its methods contain the exact string 'generateContent', and none
\* otherwise; the output holds nothing else but the progress line.
FilterCorrectnessP2 ==
    CompletedListing =>
        /\ \A d \in Descriptors :
              BlockCount(d) =
                  IF HasGenerateContent(d) THEN Count(service.models, d) ELSE 0
        /\ Len(out) = 1 + 4 * Len(SelectSeq(service.models, HasGenerateContent))

FilterCorrectnessP2Witness ==
    /\ CompletedListing
    /\ \E i, j \in DOMAIN service.models :
          /\ service.models[i].name = "models/gemini-flash"
          /\ service.models[j].name = "models/gemini-live"
    /\ Len(out) = 5

\* C4 (P3, order preservation): at every moment after the list call the lines
\* printed after the progress line (the failure line aside) are the blocks of
\* the passing descriptors processed so far, in the order of the response,
\* each block being name, display name, methods, separator; a run that
\* completes without failure has processed the whole response.
OrderPreservationP3 ==
    listCalls > 0 =>
        /\ LET body == SubSeq(out, 2, IF failed THEN Len(out) - 1 ELSE Len(out))
           IN  body = BlocksOf(SelectSeq(SubSeq(service.models, 1, Processed),
                                         HasGenerateContent))
        /\ (CompletedListing => Processed = Len(service.models))

OrderPreservationP3Witness ==
    /\ CompletedListing
    /\ Len(service.models) = 2
    /\ service.models[1].name = "models/gemini-flash"
    /\ service.models[2].name = "models/gemini-pro"
    /\ SubSeq(out, 2, 5) = Block(service.models[1])
    /\ SubSeq(out, 6, 9) = Block(service.models[2])

\* C5 (termination): every run reaches the end of the script; no exception
\* leaves the handler.
AlwaysTerminates == <>(pc = "done")

AlwaysTerminatesWitness ==
    /\ pc = "done"
    /\ failed
    /\ exc.cls = "PermissionDenied"
    /\ it = 1

\* C6 (progress line): the progress line is printed at most once, as the first
\* line, after genai.configure and before genai.list_models; with a credential
\* the finished run printed it; an immediate failure gives the progress line
\* and the failure line, an empty response the progress line only.
\* A present credential is a non-empty one: the gate sends an empty value
\* down the missing-credential path.
ProgressFirstOnce ==
    /\ Count(out, ProgressLine) <= 1
    /\ (Count(out, ProgressLine) = 1 => out[1] = ProgressLine /\ configureCalls = 1)
    /\ (Count(out, ProgressLine) = 0 => listCalls = 0 /\ out \in {<<>>, <<MissingKeyLine>>})
    /\ (pc = "call" => Count(out, ProgressLine) = 1)
    /\ (pc = "done" /\ Truthy(api_key) => Count(out, ProgressLine) = 1)
    /\ (pc = "done" /\ failed /\ it = 0 =>
            out = <<ProgressLine, FetchErrorLine(service.fault)>>)
    /\ (CompletedListing /\ Len(service.models) = 0 => out = <<ProgressLine>>)

ProgressFirstOnceWitness ==
    /\ pc = "done"
    /\ failed
    /\ it = 0
    /\ out = <<ProgressLine, "[x] Error fetching models: timeout">>

\* C7 (one call, no retry): genai.list_models() is called at most once, exactly
\* once in a finished run with a credential; once the enumeration has failed
\* the run is over, with one failure line, which is the last line printed.
\* The credential counts as present when the gate of line 10 lets it through.
OneCallNoRetry ==
    /\ listCalls <= 1
    /\ (pc = "done" /\ Truthy(api_key) => listCalls = 1)
    /\ (failed =>
            /\ pc = "done"
            /\ Len(out) > 0
            /\ out[Len(out)] = FetchErrorLine(exc)
            /\ Count(out, FetchErrorLine(exc)) = 1)

OneCallNoRetryWitness ==
    /\ pc = "done"
    /\ failed
    /\ listCalls = 1
    /\ it = 2
    /\ Len(out) > 2

\* C8 (P5, idempotent filtering): filtering the survivors again gives the same
\* sequence, and no application changes a descriptor of its input.
IdempotentFilterP5 ==
    /\ [](fpc = "twice" => twice = once)
    /\ [][fin' = fin /\ (fpc = "once" => once' = once)]_vars

IdempotentFilterP5Witness ==
    /\ fpc = "twice"
    /\ Len(fin) = 3
    /\ Len(twice) = 2

\* C9 (init before use): genai.configure is called at most once; when
\* genai.list_models has been called the handle holds the loaded credential,
\* written by exactly one configure; after the list call the handle is not
\* written again.
InitBeforeUse ==
    /\ [](/\ configureCalls <= 1
          /\ (handle # PyNone => configureCalls = 1)
          /\ (listCalls > 0 => configureCalls = 1 /\ handle # PyNone /\ handle = api_key))
    /\ [][listCalls > 0 => handle' = handle /\ configureCalls' = configureCalls]_vars

InitBeforeUseWitness ==
    /\ pc = "done"
    /\ listCalls = 1
    /\ configureCalls = 1
    /\ handle = PyStr("AIza-key")

\* C10 (empty credential): a credential that is present and empty is gated like
\* an absent one, and the handle is never set to an empty credential.
EmptyCredentialGated ==
    /\ (LookedUp /\ ~api_key.is_none /\ api_key.s = "") =>
            /\ configureCalls = 0
            /\ listCalls = 0
            /\ pc \in {"gate", "done"}
            /\ out \in {<<>>, <<MissingKeyLine>>}
            /\ (pc = "done" => out = <<MissingKeyLine>>)
    /\ (configureCalls > 0 => ~handle.is_none /\ handle.s # "")

EmptyCredentialGatedWitness ==
    /\ pc = "done"
    /\ api_key = PyStr("")
    /\ out = <<MissingKeyLine>>

====
